---------------------------- MODULE Spec2Model ----------------------------
(***************************************************************************)
(* gorename-global: bulk renaming of Go identifiers.                       *)
(*                                                                         *)
(* The module models the command of src/unnamed/part_000:                  *)
(*   - lintName, the normalisation of one identifier name (pure function,  *)
(*     also run step by step as the scan it is in the code);               *)
(*   - main / renameIn / the per-file closure: one goroutine per package,  *)
(*     one per file, the mutex-guarded changeLog, the two syncutil.Groups. *)
(*                                                                         *)
(* A name is a sequence of runes, a rune a one-character string.           *)
(* Indices w, i and n keep the code's 0-based values; At reads a slice.    *)
(***************************************************************************)
EXTENDS Integers, Sequences, FiniteSets, TLC

(***************************************************************************)
(* Runes: the classes of package unicode that lintName uses, on ASCII.     *)
(***************************************************************************)
LowerLetters ==
  <<"a","b","c","d","e","f","g","h","i","j","k","l","m",
    "n","o","p","q","r","s","t","u","v","w","x","y","z">>

UpperLetters ==
  <<"A","B","C","D","E","F","G","H","I","J","K","L","M",
    "N","O","P","Q","R","S","T","U","V","W","X","Y","Z">>

DigitRunes == {"0","1","2","3","4","5","6","7","8","9"}

Range(s) == { s[k] : k \in DOMAIN s }

IndexOf(s, c) == CHOOSE k \in DOMAIN s : s[k] = c

IsLower(c) == c \in Range(LowerLetters)

IsUpper(c) == c \in Range(UpperLetters)

IsDigit(c) == c \in DigitRunes

ToUpper(c) == IF IsLower(c) THEN UpperLetters[IndexOf(LowerLetters, c)] ELSE c

ToLower(c) == IF IsUpper(c) THEN LowerLetters[IndexOf(UpperLetters, c)] ELSE c

\* strings.ToUpper / strings.ToLower: rune by rune.
StrToUpper(s) == [k \in DOMAIN s |-> ToUpper(s[k])]

StrToLower(s) == [k \in DOMAIN s |-> ToLower(s[k])]

\* runes[k] for a 0-based k.
At(r, k) == r[k + 1]

\* runes[a:b] for 0-based a, b.
Slice(r, a, b) == SubSeq(r, a + 1, b)

(***************************************************************************)
(* The acronym table.                                                      *)
(***************************************************************************)
commonInitialisms ==
    { <<"A","P","I">>, <<"A","S","C","I","I">>, <<"C","P","U">>, <<"C","S","S">>,
      <<"D","N","S">>, <<"E","O","F">>, <<"G","U","I","D">>, <<"H","T","M","L">>,
      <<"H","T","T","P">>, <<"H","T","T","P","S">>, <<"I","D">>, <<"I","P">>,
      <<"J","S","O","N">>, <<"L","H","S">>, <<"Q","P","S">>, <<"R","A","M">>,
      <<"R","H","S">>, <<"R","P","C">>, <<"S","L","A">>, <<"S","M","T","P">>,
      <<"S","Q","L">>, <<"S","S","H">>, <<"T","C","P">>, <<"T","L","S">>,
      <<"T","T","L">>, <<"U","D","P">>, <<"U","I">>, <<"U","I","D">>,
      <<"U","U","I","D">>, <<"U","R","I">>, <<"U","R","L">>, <<"U","T","F","8">>,
      <<"V","M">>, <<"X","M","L">>, <<"X","S","R","F">>, <<"X","S","S">> }

(***************************************************************************)
(* lintName.  A scan state is [runes, w, i]: the slice, the start of the   *)
(* current word and the scan index.                                        *)
(***************************************************************************)

\* The fast path's loop: every rune is lower case (true of the empty name).
AllLower(name) == \A k \in DOMAIN name : IsLower(name[k])

\* n after the inner loop: the length of the run of underscores at i+1.
RECURSIVE UnderscoreRun(_, _, _)
UnderscoreRun(r, i, n) ==
  IF i + n + 1 < Len(r) /\ At(r, i + n + 1) = "_"
    THEN UnderscoreRun(r, i, n + 1)
    ELSE n

\* n after "leave at most one underscore between two digits".
RemoveCount(r, i) ==
  LET n == UnderscoreRun(r, i, 1)
  IN  IF i + n + 1 < Len(r) /\ IsDigit(At(r, i)) /\ IsDigit(At(r, i + n + 1))
        THEN n - 1
        ELSE n

\* copy(runes[i+1:], runes[i+n+1:]); runes = runes[:len(runes)-n]
RemoveRun(r, i, n) == Slice(r, 0, i + 1) \o Slice(r, i + n + 1, Len(r))

\* copy(runes[w:], u): u overwrites the runes from w on, as far as both reach.
CopyAt(r, w, u) ==
  [k \in DOMAIN r |->
     IF k > w /\ k - w <= Len(u) THEN u[k - w] ELSE r[k]]

\* Mutant of FixWord: an initialism is written in upper case wherever it is.
FixWord_AlwaysUpper(r, w, i) ==
  LET word == Slice(r, w, i)
      u    == StrToUpper(word)
  IN  IF u \in commonInitialisms
        THEN CopyAt(r, w, u)
        ELSE IF w > 0 /\ StrToLower(word) = word
               THEN [r EXCEPT ![w + 1] = ToUpper(r[w + 1])]
               ELSE r

\* The word [w,i) written back: an initialism in its consistent case, another
\* all-lower word that is not the first with its first rune upper-cased.
FixWord(r, w, i) ==
  LET word == Slice(r, w, i)
      u    == StrToUpper(word)
  IN  IF u \in commonInitialisms
        THEN CopyAt(r, w, IF w = 0 /\ IsLower(At(r, w)) THEN StrToLower(u) ELSE u)
        ELSE IF w > 0 /\ StrToLower(word) = word
               THEN [r EXCEPT ![w + 1] = ToUpper(r[w + 1])]
               ELSE r

\* One iteration of "for i+1 <= len(runes)".
LintIter(st) ==
  LET r      == st.runes
      i      == st.i
      last   == i + 1 = Len(r)
      under  == ~last /\ At(r, i + 1) = "_"
      camel  == ~last /\ ~under /\ IsLower(At(r, i)) /\ ~IsLower(At(r, i + 1))
      r1     == IF under THEN RemoveRun(r, i, RemoveCount(r, i)) ELSE r
      eow    == last \/ under \/ camel
  IN  IF eow
        THEN [runes |-> FixWord(r1, st.w, i + 1), w |-> i + 1, i |-> i + 1]
        ELSE [runes |-> r1, w |-> st.w, i |-> i + 1]

\* Mutant of LoopCond: the loop runs once more, with i at len(runes).
LoopCond_OffByOne(st) == st.i <= Len(st.runes)

LoopCond(st) == st.i + 1 <= Len(st.runes)

RECURSIVE LintLoop(_)
LintLoop(st) == IF LoopCond(st) THEN LintLoop(LintIter(st)) ELSE st

FastPath(name) == name = <<"_">> \/ AllLower(name)

lintName(name) ==
  IF FastPath(name)
    THEN name
    ELSE LintLoop([runes |-> name, w |-> 0, i |-> 0]).runes


(***************************************************************************)
(* The command.                                                            *)
(***************************************************************************)
VARIABLES
  auto, from, to,   \* the flags -auto, -from, -to (the empty name: flag not given)
  paths,            \* gotool.ImportPaths(flag.Args()): the requested packages
  disk,             \* path -> the file's bytes
  disk0,            \* the bytes every file had when the run started
  mainPc,           \* main: "start", "wait" (in wg.Errs), "exited"
  exitStatus,       \* the process's status once main has exited
  stderr, stdout,   \* what was printed, in order
  mainGroup,        \* main's syncutil.Group
  pkgTask,          \* k -> the goroutine running renameIn(paths[k]), with its Group
  fileTask,         \* <<k, path>> -> the goroutine of one file of paths[k]
  changeLog,        \* the mutex and the map of (old, new) pairs
  lintPc, lintIn, lintSt   \* one call of lintName, run step by step

cmdVars ==
  <<auto, from, to, paths, disk, disk0, mainPc, exitStatus, stderr, stdout,
    mainGroup, pkgTask, fileTask, changeLog>>

lintVars == <<lintPc, lintIn, lintSt>>

vars == <<cmdVars, lintVars>>

(***************************************************************************)
(* Names and file contents used as inputs.                                 *)
(***************************************************************************)
NoName == << >>

foo == <<"f","o","o">>

Foo == <<"F","o","o">>

foobar == <<"f","o","o","b","a","r">>

bar == <<"b","a","r">>

person_id == <<"p","e","r","s","o","n","_","i","d">>

personID == <<"p","e","r","s","o","n","I","D">>

IpAddress == <<"I","p","A","d","d","r","e","s","s">>

\* The bytes of a file.  A parsable file is its identifier nodes in the order
\* ast.Inspect visits them (the package name first) and its layout: "printer"
\* when the bytes are what go/printer writes for its tree, "other" when not.
GoFile(idents, layout) == [kind |-> "go", idents |-> idents, layout |-> layout]

Junk == [kind |-> "junk"]        \* no Go source: the parser rejects it

Empty == [kind |-> "empty"]      \* zero bytes: a file just truncated

\* A reprint cut short by a failed write.
Partial(idents) == [kind |-> "partial", idents |-> idents]

(***************************************************************************)
(* Errors and syncutil.Group.                                              *)
(***************************************************************************)
NoErr == [kind |-> "nil"]

Err(kind, at) == [kind |-> kind, at |-> at]

\* The line "Usage: ..." on the error stream.
UsageLine == [kind |-> "usage"]

NoTask == << >>

NewGroup(n) == [n |-> n, errs |-> << >>]

\* Mutant of GroupDone: the wrapper drops what fn returned.
GroupDone_Forget(g, e) == [n |-> g.n - 1, errs |-> g.errs]

\* The wrapper of Group.Go after fn returned e: record a non-nil e, wg.Done().
GroupDone(g, e) ==
  [n |-> g.n - 1, errs |-> IF e = NoErr THEN g.errs ELSE Append(g.errs, e)]

\* Mutant of GroupIdle: the wait also ends at the first error recorded.
GroupIdle_FailFast(g) == g.n = 0 \/ g.errs # << >>

\* Mutant of GroupIdle: the wait ends with one goroutine still running.
GroupIdle_OffByOne(g) == g.n <= 1

\* wg.Wait() has returned.
GroupIdle(g) == g.n = 0

\* Mutant of GroupErr: the caller gets nil whatever was recorded.
GroupErr_Nil(g) == NoErr

\* Group.Err(): the first error recorded.
GroupErr(g) == IF g.errs = << >> THEN NoErr ELSE Head(g.errs)

\* Mutant of GroupErrs: the caller gets no error whatever was recorded.
GroupErrs_None(g) == << >>

\* Group.Errs(): every error recorded.
GroupErrs(g) == g.errs

(***************************************************************************)
(* The packages and files of the run's GOPATH, as build.Import finds them. *)
(***************************************************************************)
Pkgs == {"p1", "p2", "nopkg"}

\* build.Import(pkgPath, ".", 0): the package, or an error.
Import(pkgPath) ==
  CASE pkgPath = "p1" ->
         [ok |-> TRUE, Dir |-> "d1", GoFiles |-> <<"a.go">>,
          TestGoFiles |-> <<"a_test.go">>, XTestGoFiles |-> << >>]
    [] pkgPath = "p2" ->
         [ok |-> TRUE, Dir |-> "d2", GoFiles |-> << >>,
          TestGoFiles |-> << >>, XTestGoFiles |-> <<"x_test.go">>]
    [] OTHER -> [ok |-> FALSE]

\* filepath.Join(pkg.Dir, path)
Join(dir, path) == <<dir, path>>

\* Mutant of FilesOf: the loop ranges over pkg.GoFiles alone.
FilesOf_GoFilesOnly(pkg) == pkg.GoFiles

\* files := append(pkg.GoFiles, pkg.TestGoFiles...); append(files, pkg.XTestGoFiles...)
FilesOf(pkg) == pkg.GoFiles \o pkg.TestGoFiles \o pkg.XTestGoFiles

PathsOf(pkg) == { Join(pkg.Dir, FilesOf(pkg)[j]) : j \in DOMAIN FilesOf(pkg) }

AllFiles ==
  UNION { PathsOf(Import(p)) : p \in { q \in Pkgs : Import(q).ok } }

\* The files of the packages a list of import paths names.
FilesIn(ps) ==
  UNION { PathsOf(Import(ps[k])) : k \in { j \in DOMAIN ps : Import(ps[j]).ok } }

(***************************************************************************)
(* The parser and the printer.                                             *)
(***************************************************************************)
\* parser.ParseFile: what it can return for these bytes.  A reprint cut short
\* may or may not parse; when it does, it holds the first nodes only.
ParseFile(bytes) ==
  CASE bytes.kind = "go" -> { [ok |-> TRUE, idents |-> bytes.idents] }
    [] bytes.kind = "partial" ->
         { [ok |-> FALSE] } \cup
         { [ok |-> TRUE, idents |-> SubSeq(bytes.idents, 1, j)] :
             j \in 1 .. Len(bytes.idents) - 1 }
    [] OTHER -> { [ok |-> FALSE] }

\* printerConf.Fprint of a tree: its nodes in the printer's layout.
Fprint(tree) == GoFile(tree, "printer")

(***************************************************************************)
(* The flags.                                                              *)
(***************************************************************************)
\* Mutant of UsageError: without -auto, only both of -from and -to missing is refused.
UsageError_BothMissing(a, f, t) ==
  \/ a /\ (f # NoName \/ t # NoName)
  \/ ~a /\ (f = NoName /\ t = NoName)

\* The condition of main's usage error.
UsageError(a, f, t) ==
  \/ a /\ (f # NoName \/ t # NoName)
  \/ ~a /\ (f = NoName \/ t = NoName)

\* Mutant of Hit: the exact match compares the names without their case.
Hit_CaseFold(a, f, name) ==
  IF a THEN lintName(name) # name ELSE StrToLower(name) = StrToLower(f)

\* Mutant of Hit: the exact match also takes a name that begins with -from.
Hit_Prefix(a, f, name) ==
  IF a THEN lintName(name) # name
       ELSE Len(name) >= Len(f) /\ SubSeq(name, 1, Len(f)) = f

\* The walk's test of a node: auto and n != i.Name, or else i.Name == *from.
\* A node that passes is renamed and sets changed.
Hit(a, f, name) ==
  IF a THEN lintName(name) # name ELSE name = f

(***************************************************************************)
(* Inputs.                                                                 *)
(***************************************************************************)
\* Identifier nodes per file, the package name included.
MaxIdents == 2

\* Runes per name given to a single call of lintName.
MaxLen == 4

SeqsUpTo(S, n) == UNION { [1 .. m -> S] : m \in 1 .. n }

\* The values of -from and -to.
FlagNames == {NoName, foo, bar}

\* The import paths: any of the packages, each at most once.
PathLists ==
  { SelectSeq(<<"p1", "p2", "nopkg">>, LAMBDA p : p \in S) : S \in SUBSET Pkgs }

\* The identifier names the files hold.
IdentNames == {foo, Foo, foobar, bar, person_id, IpAddress}

\* The files of a run of several packages: no Go source, or one of two sources.
Sources ==
  { Junk,
    GoFile(<<foo, IpAddress>>, "other"),
    GoFile(<<person_id, person_id>>, "printer") }

\* The files of a run of one package of one file: no Go source, or any nodes
\* in either layout.
FullSources ==
  {Junk} \cup
  { GoFile(ids, layout) :
      ids \in SeqsUpTo(IdentNames, MaxIdents), layout \in {"printer", "other"} }

\* A file that no requested package holds is not part of the run.
Unused == GoFile(<<foo>>, "other")

Disks(ps, sources) ==
  { [f \in AllFiles |-> IF f \in FilesIn(ps) THEN g[f] ELSE Unused] :
      g \in [FilesIn(ps) -> sources] }

InputDisks(ps) ==
  Disks(ps, Sources) \cup (IF ps = <<"p2">> THEN Disks(ps, FullSources) ELSE {})

Idle ==
  /\ lintPc = "idle"
  /\ lintIn = NoName
  /\ lintSt = [runes |-> NoName, w |-> 0, i |-> 0]

Init ==
  /\ auto \in BOOLEAN
  /\ from \in FlagNames
  /\ to \in FlagNames
  /\ paths \in PathLists
  /\ disk \in InputDisks(paths)
  /\ disk0 = disk
  /\ mainPc = "start"
  /\ exitStatus = -1
  /\ stderr = << >>
  /\ stdout = << >>
  /\ mainGroup = NewGroup(0)
  /\ pkgTask = << >>
  /\ fileTask = << >>
  /\ changeLog = [m |-> {}, holder |-> NoTask]
  /\ Idle

(***************************************************************************)
(* main                                                                    *)
(***************************************************************************)
\* The flags are refused: the usage line, os.Exit(1).
Usage ==
  /\ mainPc = "start"
  /\ UsageError(auto, from, to)
  /\ stderr' = Append(stderr, UsageLine)
  /\ exitStatus' = 1
  /\ mainPc' = "exited"
  /\ UNCHANGED <<auto, from, to, paths, disk, disk0, stdout, mainGroup,
                 pkgTask, fileTask, changeLog, lintVars>>

\* for _, p := range paths { wg.Go(renameIn(p)) }, up to the call of wg.Errs.
Start ==
  /\ mainPc = "start"
  /\ ~UsageError(auto, from, to)
  /\ pkgTask' = [k \in DOMAIN paths |->
                   [pc |-> "import", err |-> NoErr, wg |-> NewGroup(0)]]
  /\ mainGroup' = NewGroup(Len(paths))
  /\ mainPc' = "wait"
  /\ UNCHANGED <<auto, from, to, paths, disk, disk0, exitStatus, stderr,
                 stdout, fileTask, changeLog, lintVars>>

\* wg.Errs() returned errors: each is printed, os.Exit(1).
ExitErrs ==
  /\ mainPc = "wait"
  /\ GroupIdle(mainGroup)
  /\ GroupErrs(mainGroup) # << >>
  /\ stderr' = stderr \o GroupErrs(mainGroup)
  /\ exitStatus' = 1
  /\ mainPc' = "exited"
  /\ UNCHANGED <<auto, from, to, paths, disk, disk0, stdout, mainGroup,
                 pkgTask, fileTask, changeLog, lintVars>>

\* The lines of the report: the map's keys in the order the range yields them.
ReportOrders(m) ==
  { s \in [1 .. Cardinality(m) -> m] : Range(s) = m }

\* wg.Errs() returned nil: the report when the map is not empty, return.
ExitOk ==
  /\ mainPc = "wait"
  /\ GroupIdle(mainGroup)
  /\ GroupErrs(mainGroup) = << >>
  /\ IF Cardinality(changeLog.m) > 0
       THEN \E order \in ReportOrders(changeLog.m) :
              stdout' = stdout \o <<"Changed:">> \o order
       ELSE stdout' = stdout
  /\ exitStatus' = 0
  /\ mainPc' = "exited"
  /\ UNCHANGED <<auto, from, to, paths, disk, disk0, stderr, mainGroup,
                 pkgTask, fileTask, changeLog, lintVars>>

(***************************************************************************)
(* renameIn(paths[k])                                                      *)
(***************************************************************************)
NewFileTask ==
  [pc |-> "parse", tree |-> << >>, k |-> 0, changed |-> FALSE, err |-> NoErr]

\* build.Import fails: renameIn returns the error to main's Group.
ImportFail(k) ==
  /\ pkgTask[k].pc = "import"
  /\ ~Import(paths[k]).ok
  /\ pkgTask' = [pkgTask EXCEPT ![k].pc = "done",
                                ![k].err = Err("import", paths[k])]
  /\ mainGroup' = GroupDone(mainGroup, Err("import", paths[k]))
  /\ UNCHANGED <<auto, from, to, paths, disk, disk0, mainPc, exitStatus,
                 stderr, stdout, fileTask, changeLog, lintVars>>

\* build.Import succeeds: one goroutine per file of the three lists, up to
\* the call of wg.Err.
ImportOk(k) ==
  /\ pkgTask[k].pc = "import"
  /\ Import(paths[k]).ok
  /\ LET new == { <<k, f>> : f \in PathsOf(Import(paths[k])) }
     IN  /\ fileTask' = [t \in DOMAIN fileTask \cup new |->
                           IF t \in new THEN NewFileTask ELSE fileTask[t]]
         /\ pkgTask' = [pkgTask EXCEPT ![k].pc = "wait",
                          ![k].wg = NewGroup(Len(FilesOf(Import(paths[k]))))]
  /\ UNCHANGED <<auto, from, to, paths, disk, disk0, mainPc, exitStatus,
                 stderr, stdout, mainGroup, changeLog, lintVars>>

\* return wg.Err(): every file goroutine is done; the first error, or nil.
PkgReturn(k) ==
  /\ pkgTask[k].pc = "wait"
  /\ GroupIdle(pkgTask[k].wg)
  /\ pkgTask' = [pkgTask EXCEPT ![k].pc = "done",
                                ![k].err = GroupErr(pkgTask[k].wg)]
  /\ mainGroup' = GroupDone(mainGroup, GroupErr(pkgTask[k].wg))
  /\ UNCHANGED <<auto, from, to, paths, disk, disk0, mainPc, exitStatus,
                 stderr, stdout, fileTask, changeLog, lintVars>>

(***************************************************************************)
(* The goroutine of one file, t = <<k, path>>.                             *)
(***************************************************************************)
\* Mutant of PathOf: the closure reads the loop's variable, which holds the
\* last file of the package by the time the goroutine runs.
PathOf_LoopVar(t) ==
  LET pkg == Import(paths[t[1]])
  IN  Join(pkg.Dir, FilesOf(pkg)[Len(FilesOf(pkg))])

PathOf(t) == t[2]

\* The closure returns e: the Go wrapper records it in renameIn's Group.
Return(t, e) ==
  /\ fileTask' = [fileTask EXCEPT ![t].pc = "done", ![t].err = e]
  /\ pkgTask' = [pkgTask EXCEPT ![t[1]].wg = GroupDone(@, e)]

\* parser.ParseFile fails.
ParseFail(t) ==
  /\ fileTask[t].pc = "parse"
  /\ \E r \in ParseFile(disk[PathOf(t)]) : ~r.ok
  /\ Return(t, Err("parse", PathOf(t)))
  /\ UNCHANGED <<auto, from, to, paths, disk, disk0, mainPc, exitStatus,
                 stderr, stdout, mainGroup, changeLog, lintVars>>

\* parser.ParseFile succeeds; ast.Inspect is at the first node.
ParseOk(t) ==
  /\ fileTask[t].pc = "parse"
  /\ \E r \in ParseFile(disk[PathOf(t)]) :
       /\ r.ok
       /\ fileTask' = [fileTask EXCEPT ![t].pc = "walk",
                                       ![t].tree = r.idents,
                                       ![t].k = 1]
  /\ UNCHANGED <<auto, from, to, paths, disk, disk0, mainPc, exitStatus,
                 stderr, stdout, mainGroup, pkgTask, changeLog, lintVars>>

\* The node the walk is at.
AtNode(t) ==
  /\ fileTask[t].pc = "walk"
  /\ fileTask[t].k <= Len(fileTask[t].tree)

Node(t) == fileTask[t].tree[fileTask[t].k]

\* A node neither branch renames.
VisitSkip(t) ==
  /\ AtNode(t)
  /\ ~Hit(auto, from, Node(t))
  /\ fileTask' = [fileTask EXCEPT ![t].k = @ + 1]
  /\ UNCHANGED <<auto, from, to, paths, disk, disk0, mainPc, exitStatus,
                 stderr, stdout, mainGroup, pkgTask, changeLog, lintVars>>

\* else if i.Name == *from { changed = true; i.Name = *to }
VisitExact(t) ==
  /\ AtNode(t)
  /\ ~auto
  /\ Hit(auto, from, Node(t))
  /\ fileTask' = [fileTask EXCEPT ![t].changed = TRUE,
                    ![t].tree[fileTask[t].k] = to,
                    ![t].k = @ + 1]
  /\ UNCHANGED <<auto, from, to, paths, disk, disk0, mainPc, exitStatus,
                 stderr, stdout, mainGroup, pkgTask, changeLog, lintVars>>

\* Mutant of MutexFree: Lock returns at once, whoever holds the mutex.
MutexFree_NoWait(cl) == TRUE

\* sync.Mutex: Lock returns only when no goroutine holds the mutex.
MutexFree(cl) == cl.holder = NoTask

\* n != i.Name: changeLog.Lock() returns once no goroutine holds the mutex.
Lock(t) ==
  /\ AtNode(t)
  /\ auto
  /\ Hit(auto, from, Node(t))
  /\ MutexFree(changeLog)
  /\ changeLog' = [changeLog EXCEPT !.holder = t]
  /\ fileTask' = [fileTask EXCEPT ![t].pc = "locked"]
  /\ UNCHANGED <<auto, from, to, paths, disk, disk0, mainPc, exitStatus,
                 stderr, stdout, mainGroup, pkgTask, lintVars>>

\* Mutant of LogKey: the pair is built after the node has its new name.
LogKey_AfterRename(name, n) == <<n, n>>

\* The map key [2]string{i.Name, n}.
LogKey(name, n) == <<name, n>>

\* changeLog.m[{i.Name, n}] = true; Unlock(); changed = true; i.Name = n
InsertUnlock(t) ==
  /\ fileTask[t].pc = "locked"
  /\ LET n == lintName(Node(t))
     IN  /\ changeLog' = [m |-> changeLog.m \cup { LogKey(Node(t), n) },
                          holder |-> NoTask]
         /\ fileTask' = [fileTask EXCEPT ![t].pc = "walk",
                           ![t].changed = TRUE,
                           ![t].tree[fileTask[t].k] = n,
                           ![t].k = @ + 1]
  /\ UNCHANGED <<auto, from, to, paths, disk, disk0, mainPc, exitStatus,
                 stderr, stdout, mainGroup, pkgTask, lintVars>>

\* ast.Inspect has returned.
Walked(t) ==
  /\ fileTask[t].pc = "walk"
  /\ fileTask[t].k > Len(fileTask[t].tree)

\* if !changed { return nil }
NoChange(t) ==
  /\ Walked(t)
  /\ ~fileTask[t].changed
  /\ Return(t, NoErr)
  /\ UNCHANGED <<auto, from, to, paths, disk, disk0, mainPc, exitStatus,
                 stderr, stdout, mainGroup, changeLog, lintVars>>

\* os.Create fails: the file is as it was.
CreateFail(t) ==
  /\ Walked(t)
  /\ fileTask[t].changed
  /\ Return(t, Err("open", PathOf(t)))
  /\ UNCHANGED <<auto, from, to, paths, disk, disk0, mainPc, exitStatus,
                 stderr, stdout, mainGroup, changeLog, lintVars>>

\* os.Create succeeds: the file is truncated.
CreateOk(t) ==
  /\ Walked(t)
  /\ fileTask[t].changed
  /\ disk' = [disk EXCEPT ![PathOf(t)] = Empty]
  /\ fileTask' = [fileTask EXCEPT ![t].pc = "print"]
  /\ UNCHANGED <<auto, from, to, paths, disk0, mainPc, exitStatus,
                 stderr, stdout, mainGroup, pkgTask, changeLog, lintVars>>

\* printerConf.Fprint fails: part of the reprint is in the file.
FprintFail(t) ==
  /\ fileTask[t].pc = "print"
  /\ disk' = [disk EXCEPT ![PathOf(t)] = Partial(fileTask[t].tree)]
  /\ Return(t, Err("write", PathOf(t)))
  /\ UNCHANGED <<auto, from, to, paths, disk0, mainPc, exitStatus,
                 stderr, stdout, mainGroup, changeLog, lintVars>>

\* printerConf.Fprint succeeds, wc.Close().
FprintOk(t) ==
  /\ fileTask[t].pc = "print"
  /\ disk' = [disk EXCEPT ![PathOf(t)] = Fprint(fileTask[t].tree)]
  /\ Return(t, NoErr)
  /\ UNCHANGED <<auto, from, to, paths, disk0, mainPc, exitStatus,
                 stderr, stdout, mainGroup, changeLog, lintVars>>

Next ==
  \/ Usage
  \/ Start
  \/ ExitErrs
  \/ ExitOk
  \/ \E k \in DOMAIN pkgTask : ImportFail(k)
  \/ \E k \in DOMAIN pkgTask : ImportOk(k)
  \/ \E k \in DOMAIN pkgTask : PkgReturn(k)
  \/ \E t \in DOMAIN fileTask : ParseFail(t)
  \/ \E t \in DOMAIN fileTask : ParseOk(t)
  \/ \E t \in DOMAIN fileTask : VisitSkip(t)
  \/ \E t \in DOMAIN fileTask : VisitExact(t)
  \/ \E t \in DOMAIN fileTask : Lock(t)
  \/ \E t \in DOMAIN fileTask : InsertUnlock(t)
  \/ \E t \in DOMAIN fileTask : NoChange(t)
  \/ \E t \in DOMAIN fileTask : CreateFail(t)
  \/ \E t \in DOMAIN fileTask : CreateOk(t)
  \/ \E t \in DOMAIN fileTask : FprintFail(t)
  \/ \E t \in DOMAIN fileTask : FprintOk(t)

Spec == Init /\ [][Next]_vars

(***************************************************************************)
(* Runs whose list of import paths names a package twice: main starts one  *)
(* renameIn for every entry of the list.                                   *)
(***************************************************************************)
DupPathLists == { <<"p2", "p2">>, <<"p2", "nopkg", "p2">> }

DupInit ==
  /\ auto \in BOOLEAN
  /\ from \in FlagNames
  /\ to \in FlagNames
  /\ paths \in DupPathLists
  /\ disk \in Disks(paths, Sources)
  /\ disk0 = disk
  /\ mainPc = "start"
  /\ exitStatus = -1
  /\ stderr = << >>
  /\ stdout = << >>
  /\ mainGroup = NewGroup(0)
  /\ pkgTask = << >>
  /\ fileTask = << >>
  /\ changeLog = [m |-> {}, holder |-> NoTask]
  /\ Idle

DupSpec == DupInit /\ [][Next]_vars

(***************************************************************************)
(* One call of lintName, an iteration of its loop at a time.               *)
(***************************************************************************)
\* The runes of the names given to the call.
LintRunes == {"A", "I", "a", "p", "i", "_", "1"}

\* Go identifiers: a first rune that is no digit.
LintNames ==
  { s \in SeqsUpTo(LintRunes, MaxLen) : ~IsDigit(s[1]) }

\* The command is not running.
Off ==
  /\ auto = TRUE
  /\ from = NoName
  /\ to = NoName
  /\ paths = << >>
  /\ disk = [f \in AllFiles |-> Unused]
  /\ disk0 = disk
  /\ mainPc = "off"
  /\ exitStatus = -1
  /\ stderr = << >>
  /\ stdout = << >>
  /\ mainGroup = NewGroup(0)
  /\ pkgTask = << >>
  /\ fileTask = << >>
  /\ changeLog = [m |-> {}, holder |-> NoTask]

LintInit ==
  /\ Off
  /\ lintPc = "call"
  /\ lintIn \in LintNames
  /\ lintSt = [runes |-> lintIn, w |-> 0, i |-> 0]

\* The fast path: "_" or all lower case, the name is returned as it is.
LintFast ==
  /\ lintPc = "call"
  /\ FastPath(lintIn)
  /\ lintPc' = "return"
  /\ UNCHANGED <<lintIn, lintSt, cmdVars>>

\* runes := []rune(name); w, i := 0, 0
LintScan ==
  /\ lintPc = "call"
  /\ ~FastPath(lintIn)
  /\ lintPc' = "loop"
  /\ UNCHANGED <<lintIn, lintSt, cmdVars>>

\* One iteration of the loop.
LintStep ==
  /\ lintPc = "loop"
  /\ LoopCond(lintSt)
  /\ lintSt' = LintIter(lintSt)
  /\ UNCHANGED <<lintPc, lintIn, cmdVars>>

\* return string(runes)
LintReturn ==
  /\ lintPc = "loop"
  /\ ~LoopCond(lintSt)
  /\ lintPc' = "return"
  /\ UNCHANGED <<lintIn, lintSt, cmdVars>>

\* What the call returned.
LintResult == lintSt.runes

LintNext == LintFast \/ LintScan \/ LintStep \/ LintReturn

LintSpec == LintInit /\ [][LintNext]_vars

\* The call runs on: lintName is sequential code that no other goroutine can
\* hold up.
LintLive == LintInit /\ [][LintNext]_vars /\ WF_vars(LintNext)

(***************************************************************************)
(* Properties.                                                             *)
(***************************************************************************)
\* Exactly one of: -auto alone, or -from and -to both given without -auto.
ValidConfig ==
  \/ auto /\ from = NoName /\ to = NoName
  \/ ~auto /\ from # NoName /\ to # NoName

Done(t) == fileTask[t].pc = "done"

\* The file task t was started for, when the run started and now.
Before(t) == disk0[t[2]]

Now(t) == disk[t[2]]

\* C1: exact-match mode: in every file parsed and written without failure,
\* every node that was named from is named to and every other node, whatever
\* its case and whatever it contains, has the name it had.
C1_ExactMatch ==
  \A t \in DOMAIN fileTask :
    (~auto /\ Done(t) /\ fileTask[t].err = NoErr) =>
      /\ Before(t).kind = "go"
      /\ Now(t).kind = "go"
      /\ Len(Now(t).idents) = Len(Before(t).idents)
      /\ \A j \in DOMAIN Before(t).idents :
           Now(t).idents[j] =
             IF Before(t).idents[j] = from THEN to ELSE Before(t).idents[j]

\* C1 witness: -from foo -to bar on a file of the nodes foo and Foo (or foobar):
\* written, foo is bar and the other node is as it was.
C1_Witness ==
  \E t \in DOMAIN fileTask :
    /\ ~auto /\ from = foo /\ to = bar
    /\ Done(t) /\ fileTask[t].err = NoErr
    /\ Before(t).kind = "go"
    /\ Before(t).idents \in {<<foo, Foo>>, <<foobar, foo>>}
    /\ Now(t) \in {GoFile(<<bar, Foo>>, "printer"), GoFile(<<foobar, bar>>, "printer")}

\* C2: lintName is idempotent: what a call returns, lintName returns unchanged.
C2_Idempotent ==
  lintPc = "return" => lintName(LintResult) = LintResult

\* Whether os.Create has truncated the file of task t.
Opened(t) ==
  \/ fileTask[t].pc = "print"
  \/ Done(t) /\ fileTask[t].err.kind = "write"
  \/ Done(t) /\ fileTask[t].err = NoErr /\ fileTask[t].changed

\* Whether the walk of task t has given some node another name than it had.
Renamed(t) ==
  \E j \in DOMAIN fileTask[t].tree : fileTask[t].tree[j] # Before(t).idents[j]

\* C3: a file is opened for writing only if the walk gave one of its nodes a
\* different name; otherwise its bytes are those it had.
C3_WriteOnlyIfRenamed ==
  \A t \in DOMAIN fileTask :
    /\ Opened(t) => Renamed(t)
    /\ (Done(t) /\ ~Renamed(t)) => Now(t) = Before(t)

\* C4: the run proceeds exactly when the flags are valid; otherwise the usage
\* line is printed and the process exits with status 1 with no package
\* resolved and no file read or written.
C4_Validation ==
  mainPc # "start" =>
    IF ValidConfig
      THEN /\ DOMAIN pkgTask = DOMAIN paths
           /\ UsageLine \notin Range(stderr)
      ELSE /\ mainPc = "exited"
           /\ exitStatus = 1
           /\ stderr = <<UsageLine>>
           /\ pkgTask = << >>
           /\ fileTask = << >>
           /\ disk = disk0

\* C4 witness: -auto with -from: refused.
C4_Witness ==
  /\ auto /\ from = foo /\ to = NoName
  /\ paths = <<"p1", "p2">>
  /\ mainPc = "exited"
  /\ exitStatus = 1

\* Every failure of the run: what a file goroutine or renameIn returned.
Failures ==
  ({ fileTask[t].err : t \in DOMAIN fileTask } \cup
   { pkgTask[k].err : k \in DOMAIN pkgTask }) \ {NoErr}

\* C5: every failure of the run is on the error stream when the run ends.
C5_AllFailuresPrinted ==
  (mainPc = "exited" /\ ValidConfig) =>
    \A e \in Failures : e \in Range(stderr)

\* The goroutine of a file has run its own steps to one of the three outcomes:
\* no change, changed, or a failure of its parse, its open or its write.
Terminal(t) ==
  \/ fileTask[t].err.kind = "parse"
  \/ /\ fileTask[t].k = Len(fileTask[t].tree) + 1
     /\ Len(fileTask[t].tree) = Len(Before(t).idents)
     /\ \/ ~fileTask[t].changed /\ fileTask[t].err = NoErr
        \/ /\ fileTask[t].changed
           /\ fileTask[t].err = NoErr
           /\ Now(t) = Fprint(fileTask[t].tree)
        \/ fileTask[t].changed /\ fileTask[t].err.kind \in {"open", "write"}

\* Some goroutine can take a step: main, a renameIn that is not waiting or
\* whose files have all returned, or a file's goroutine that is not waiting
\* for the mutex or that finds it free.
CanStep ==
  \/ mainPc = "start"
  \/ mainPc = "wait" /\ GroupIdle(mainGroup)
  \/ \E k \in DOMAIN pkgTask :
       \/ pkgTask[k].pc = "import"
       \/ pkgTask[k].pc = "wait" /\ GroupIdle(pkgTask[k].wg)
  \/ \E t \in DOMAIN fileTask :
       \/ fileTask[t].pc \in {"parse", "locked", "print"}
       \/ Walked(t)
       \/ AtNode(t) /\ ((auto /\ Hit(auto, from, Node(t))) => changeLog.holder = NoTask)

\* C6: when a valid run exits, every package named has had its goroutine,
\* every file of every resolved package has had its own, and each of them has
\* reached its outcome, whatever failed beside it; and until main exits some
\* goroutine can always take a step, so none is left waiting for ever on a
\* failed one.
C6_AllTasksFinish ==
  /\ (mainPc = "exited" /\ ValidConfig) =>
       /\ DOMAIN pkgTask = DOMAIN paths
       /\ \A k \in DOMAIN pkgTask :
            /\ pkgTask[k].pc = "done"
            /\ Import(paths[k]).ok =>
                 \A f \in PathsOf(Import(paths[k])) : <<k, f>> \in DOMAIN fileTask
       /\ \A t \in DOMAIN fileTask : Done(t) /\ Terminal(t)
  /\ mainPc \in {"start", "wait"} => CanStep

\* C6 witness: the run has exited; in one package a file failed to parse and
\* the file beside it was rewritten.
C6_Witness ==
  /\ mainPc = "exited"
  /\ \E t1, t2 \in DOMAIN fileTask :
       /\ t1[1] = t2[1]
       /\ fileTask[t1].err.kind = "parse"
       /\ fileTask[t2].err = NoErr
       /\ fileTask[t2].changed
       /\ Now(t2) = Fprint(fileTask[t2].tree)

\* C7: a valid run exits with a non-zero status exactly when something failed.
C7_ExitStatus ==
  (mainPc = "exited" /\ ValidConfig) =>
    /\ exitStatus \in {0, 1}
    /\ exitStatus # 0 <=> Failures # {}

\* C7 witness: the only failure of the run is one file's write; the status is 1.
C7_Witness ==
  /\ mainPc = "exited"
  /\ exitStatus = 1
  /\ Cardinality(Failures) = 1
  /\ \E e \in Failures : e.kind = "write"

\* The (old, new) names of every node that has another name than it had.
RenamedPairs ==
  UNION { { <<Before(t).idents[j], Now(t).idents[j]>> :
              j \in { i \in DOMAIN Before(t).idents :
                        Now(t).idents[i] # Before(t).idents[i] } } :
          t \in DOMAIN fileTask }

\* C8: after -auto without failures, the report is the header and one line
\* for each distinct (old, new) pair of the renamed nodes, and nothing at all
\* when no node was renamed.
C8_Report ==
  (mainPc = "exited" /\ auto /\ ValidConfig /\ Failures = {}) =>
    IF RenamedPairs = {}
      THEN stdout = << >>
      ELSE /\ Head(stdout) = "Changed:"
           /\ Range(Tail(stdout)) = RenamedPairs
           /\ Len(Tail(stdout)) = Cardinality(RenamedPairs)

\* C8 witness: four nodes named person_id in two files, one line.
C8_Witness ==
  /\ mainPc = "exited" /\ auto /\ Failures = {}
  /\ \E t1, t2 \in DOMAIN fileTask :
       /\ t1 # t2
       /\ Before(t1).idents = <<person_id, person_id>>
       /\ Before(t2).idents = <<person_id, person_id>>
       /\ Now(t1).idents = <<personID, personID>>
       /\ Now(t2).idents = <<personID, personID>>
  /\ stdout = <<"Changed:", <<person_id, personID>>>>

\* Every goroutine of the run has returned and the mutex is free.
AllJoined ==
  /\ \A k \in DOMAIN pkgTask : pkgTask[k].pc = "done"
  /\ \A t \in DOMAIN fileTask : Done(t)
  /\ changeLog.holder = NoTask

\* C9: main leaves wg.Errs, after which it reads the map and prints the
\* report, only when every goroutine has returned; the map never changes
\* once main has exited.
C9_ReadAfterJoin ==
  [][ /\ (mainPc = "wait" /\ mainPc' = "exited") => AllJoined
      /\ mainPc = "exited" => changeLog' = changeLog ]_vars

\* C9 witness: the report of a run in which two files each recorded a pair.
C9_Witness ==
  /\ mainPc = "exited"
  /\ Cardinality(changeLog.m) = 2
  /\ Len(stdout) = 3

\* What a file holding bytes b holds after its own goroutine has returned,
\* failure being "nil" or the step of that goroutine that failed.
FinalBytes(b, failure) ==
  LET new(name) == IF auto THEN lintName(name)
                           ELSE IF name = from THEN to ELSE name
      hit(name) == IF auto THEN lintName(name) # name ELSE name = from
  IN  IF b.kind # "go" \/ ~\E j \in DOMAIN b.idents : hit(b.idents[j])
        THEN b
        ELSE CASE failure = "open" -> b
               [] failure = "write" ->
                    Partial([j \in DOMAIN b.idents |-> new(b.idents[j])])
               [] OTHER -> Fprint([j \in DOMAIN b.idents |-> new(b.idents[j])])

\* C10: in every interleaving a file holds, once its goroutine has returned,
\* what its own bytes, the flags and its own failure determine, and until
\* then its own bytes or none: no other goroutine touches it.
C10_NoInterference ==
  \A t \in DOMAIN fileTask :
    /\ Done(t) =>
         /\ Now(t) = FinalBytes(Before(t), fileTask[t].err.kind)
         /\ fileTask[t].err.kind = "parse" <=> Before(t).kind # "go"
    /\ ~Done(t) => Now(t) \in {Before(t), Empty}

\* C10 witness: of two files of one package, one is rewritten while the
\* other, truncated, is still being printed.
C10_Witness ==
  \E t1, t2 \in DOMAIN fileTask :
    /\ t1[1] = t2[1]
    /\ t1 # t2
    /\ Done(t1) /\ fileTask[t1].changed /\ fileTask[t1].err = NoErr
    /\ fileTask[t2].pc = "print"

\* The criterion of the mode in force, for a name as the file held it.
Meets(name) == IF auto THEN lintName(name) # name ELSE name = from

\* The file of task t is Go source none of whose nodes meets the criterion.
NoMatch(t) ==
  /\ Before(t).kind = "go"
  /\ \A j \in DOMAIN Before(t).idents : ~Meets(Before(t).idents[j])

\* C11: in either mode, a file none of whose identifiers meets the criterion
\* in force is never opened for writing, keeps its bytes, and its goroutine
\* returns nil with changed still false.
C11_NoMatchNoWrite ==
  \A t \in DOMAIN fileTask :
    NoMatch(t) =>
      /\ ~Opened(t)
      /\ fileTask[t].pc \notin {"locked", "print"}
      /\ Now(t) = Before(t)
      /\ ~fileTask[t].changed
      /\ Done(t) => fileTask[t].err = NoErr

\* C11 witness: -from foo -to bar over a file of the nodes foobar and Foo; the
\* goroutine has returned nil and the file is as it was.
C11_Witness ==
  \E t \in DOMAIN fileTask :
    /\ ~auto /\ from = foo /\ to = bar
    /\ Before(t) = GoFile(<<foobar, Foo>>, "other")
    /\ Done(t) /\ fileTask[t].err = NoErr
    /\ Now(t) = Before(t)

\* The file names of the three lists build.Import fills for a package.
ThreeLists(pkg) ==
  Range(pkg.GoFiles) \cup Range(pkg.TestGoFiles) \cup Range(pkg.XTestGoFiles)

\* The file goroutines renameIn(paths[k]) has started.
TasksOf(k) == { t \in DOMAIN fileTask : t[1] = k }

BetweenDigits(r, k) ==
  /\ 0 < k /\ k + 1 < Len(r)
  /\ IsDigit(At(r, k - 1)) /\ IsDigit(At(r, k + 1))

\* C13: for every name off the fast path lintName removes every run of
\* underscores, leading, inner or trailing, but for one underscore of a run
\* between two digits: what it returns holds an underscore only as a single
\* underscore between two digits.
C13_UnderscoresRemoved ==
  (lintPc = "return" /\ ~FastPath(lintIn)) =>
    \A k \in 0 .. Len(LintResult) - 1 :
      At(LintResult, k) = "_" => BetweenDigits(LintResult, k)

IPAddress == <<"I","P","A","d","d","r","e","s","s">>

APIProxy == <<"A","P","I","P","r","o","x","y">>

\* What the claim says a word becomes: first tells whether it is the first
\* word of the name, lowerStart whether the name begins with a lower-case rune.
CasedWord(word, first, lowerStart) ==
  IF StrToUpper(word) \in commonInitialisms
    THEN IF first /\ lowerStart THEN StrToLower(word) ELSE StrToUpper(word)
    ELSE IF ~first /\ word = StrToLower(word)
           THEN <<ToUpper(Head(word))>> \o Tail(word)
           ELSE word

\* C14: every word the scan ends is written back as follows: a word whose
\* upper-case form is in the table becomes that form, or its lower-case form
\* exactly when it is the first word of a name that begins with a lower-case
\* rune; another word that is not the first and is all lower case gets its
\* first rune upper-cased; any other word is left as it is, and so is every
\* rune before the word.  person_id becomes personID, IpAddress becomes
\* IPAddress, APIProxy stays.
C14_AcronymCasing ==
  /\ [](/\ lintName(person_id) = personID
        /\ lintName(IpAddress) = IPAddress
        /\ lintName(APIProxy) = APIProxy)
  /\ [][ (lintPc = "loop" /\ lintSt'.w # lintSt.w) =>
           LET w    == lintSt.w
               i    == lintSt.i + 1
               word == Slice(lintSt.runes, w, i)
           IN  /\ lintSt'.w = i
               /\ Slice(lintSt'.runes, w, i) =
                    CasedWord(word, w = 0, IsLower(lintIn[1]))
               /\ Slice(lintSt'.runes, 0, w) = Slice(lintSt.runes, 0, w) ]_vars

\* C14 witness: ip_A has returned ipA (the first word an initialism kept in
\* lower case), or a_ip has returned aIP (a later word an initialism).
C14_Witness ==
  /\ lintPc = "return"
  /\ \/ lintIn = <<"i","p","_","A">> /\ LintResult = <<"i","p","A">>
     \/ lintIn = <<"a","_","i","p">> /\ LintResult = <<"a","I","P">>

\* The goroutines between changeLog.Lock() and changeLog.Unlock().
InLock == { t \in DOMAIN fileTask : fileTask[t].pc = "locked" }

\* The pairs the goroutine of a file has put in the map so far: for each node
\* its walk has passed and renamed, the name the file had and the new name.
Inserted(t) ==
  IF auto
    THEN { <<Before(t).idents[j], fileTask[t].tree[j]>> :
             j \in { n \in DOMAIN fileTask[t].tree :
                       /\ n < fileTask[t].k
                       /\ fileTask[t].tree[n] # Before(t).idents[n] } }
    ELSE {}

\* C15: at most one goroutine is between Lock and Unlock at any time, and it
\* is the holder of the mutex; in every interleaving the map holds exactly
\* the pairs the goroutines have inserted, so that after the join it is the
\* union of what each of them inserted, a pair inserted twice counting once.
C15_SafeInsertion ==
  /\ Cardinality(InLock) <= 1
  /\ \A t \in InLock : changeLog.holder = t
  /\ InLock = {} => changeLog.holder = NoTask
  /\ changeLog.m = UNION { Inserted(t) : t \in DOMAIN fileTask }

\* C15 witness: one goroutine holds the mutex and is about to insert a pair
\* the map already has, while another is at a node it must record and waits.
C15_Witness ==
  \E t1, t2 \in DOMAIN fileTask :
    /\ t1 # t2
    /\ fileTask[t1].pc = "locked"
    /\ <<Node(t1), lintName(Node(t1))>> \in changeLog.m
    /\ AtNode(t2) /\ auto /\ lintName(Node(t2)) # Node(t2)

\* C16: a file the parser rejects is never opened for writing and keeps its
\* bytes, its goroutine renames no node and puts no pair in the map, and it
\* returns the parse failure, which renameIn's Group records, so that the run
\* exits with a non-zero status.
C16_ParseFailure ==
  \A t \in DOMAIN fileTask :
    Before(t).kind # "go" =>
      /\ fileTask[t].pc \in {"parse", "done"}
      /\ ~Opened(t)
      /\ Now(t) = Before(t)
      /\ fileTask[t].tree = << >> /\ ~fileTask[t].changed
      /\ Inserted(t) = {}
      /\ Done(t) =>
           /\ fileTask[t].err = Err("parse", t[2])
           /\ \/ fileTask[t].err \in Range(pkgTask[t[1]].wg.errs)
              \/ pkgTask[t[1]].pc = "done"
           /\ pkgTask[t[1]].pc = "done" => pkgTask[t[1]].err # NoErr
      /\ mainPc = "exited" => (Done(t) /\ exitStatus = 1)

\* C16 witness: a run has exited with status 1 in which one file did not
\* parse and is as it was, while another file recorded a pair.
C16_Witness ==
  /\ mainPc = "exited" /\ exitStatus = 1
  /\ changeLog.m # {}
  /\ \E t \in DOMAIN fileTask :
       /\ Before(t) = Junk
       /\ fileTask[t].err = Err("parse", t[2])
       /\ Now(t) = Junk

\* The goroutine of a file has rewritten it with some node renamed.
Rewritten(t) ==
  /\ Done(t) /\ fileTask[t].err = NoErr /\ fileTask[t].changed
  /\ Now(t) = Fprint(fileTask[t].tree)

\* C17: in auto mode main prints the report, the header and one line for each
\* pair of the map, in every run that recorded a pair, also when another
\* file or package of the run failed: the nodes renamed on disk in the files
\* that were rewritten are reported.
C17_ReportDespiteFailure ==
  (mainPc = "exited" /\ auto /\ ValidConfig /\ changeLog.m # {}) =>
    /\ stdout # << >>
    /\ Head(stdout) = "Changed:"
    /\ Range(Tail(stdout)) = changeLog.m
    /\ \A t \in DOMAIN fileTask :
         Rewritten(t) => Inserted(t) \subseteq Range(Tail(stdout))

\* The file of task t holds neither the bytes it had nor the whole reprint of
\* the tree its goroutine walked.
Damaged(t) == Now(t) # Before(t) /\ Now(t) # Fprint(fileTask[t].tree)

\* C18: a file to be rewritten is truncated by os.Create before the reprint
\* is written and in place, so it is empty while the reprint is under way;
\* a file is left neither as it was nor wholly reprinted only by a failed
\* write, and then its goroutine returns that failure and the run exits with
\* a non-zero status.
C18_TruncateThenWrite ==
  \A t \in DOMAIN fileTask :
    /\ fileTask[t].pc = "print" => (Now(t) = Empty /\ Damaged(t))
    /\ Damaged(t) =>
         \/ fileTask[t].pc = "print"
         \/ /\ Done(t)
            /\ fileTask[t].err = Err("write", t[2])
            /\ Now(t) = Partial(fileTask[t].tree)
            /\ pkgTask[t[1]].pc = "done" => pkgTask[t[1]].err # NoErr
    /\ (Damaged(t) /\ mainPc = "exited") => (Done(t) /\ exitStatus = 1)

\* C18 witness: a run has exited with status 1 and left a file holding part
\* of its reprint, its goroutine having returned the write's failure.
C18_Witness ==
  /\ mainPc = "exited" /\ exitStatus = 1
  /\ \E t \in DOMAIN fileTask :
       /\ Before(t).kind = "go"
       /\ Now(t).kind = "partial"
       /\ Damaged(t)
       /\ fileTask[t].err = Err("write", t[2])

\* C19: whatever the list of import paths, also one that names a package
\* twice, a file has at most one goroutine in a run, so no two goroutines
\* ever read, truncate or write the same file.
C19_OneTaskPerPath ==
  \A t1, t2 \in DOMAIN fileTask : t1[2] = t2[2] => t1 = t2

InRange(r, k) == 0 <= k /\ k < Len(r)

\* The indices at which the iteration about to run reads runes before it
\* shrinks the slice: runes[i+1], the runes of the inner loop and of the test
\* for two digits, and runes[i].
ScanReads(st) ==
  LET r == st.runes
      i == st.i
  IN  IF i + 1 = Len(r)
        THEN {}
        ELSE {i + 1} \cup
             IF InRange(r, i + 1) /\ At(r, i + 1) = "_"
               THEN LET n == UnderscoreRun(r, i, 1)
                    IN  { i + m + 1 : m \in { j \in 1 .. n : i + j + 1 < Len(r) } }
                          \cup (IF i + n + 1 < Len(r) THEN {i, i + n + 1} ELSE {})
               ELSE {i}

\* The bounds of runes[i+1:], runes[i+n+1:] and runes[:len(runes)-n] .
SlicesInRange(st) ==
  LET r == st.runes
      i == st.i
  IN  (InRange(r, i + 1) /\ At(r, i + 1) = "_") =>
        LET n == RemoveCount(r, i)
        IN  0 <= n /\ i + n + 1 <= Len(r) /\ n <= Len(r)

\* C20: at every iteration of the scan 0 <= w <= i <= len(runes), the
\* iteration reads and slices runes within the length it has then, also after
\* runs of underscores have been cut out, and the word it writes back lies
\* within the length left; every iteration moves i on by one and never
\* lengthens the slice, and every call returns.
C20_ScanInBounds ==
  /\ [](lintPc = "loop" =>
          /\ 0 <= lintSt.w /\ lintSt.w <= lintSt.i
          /\ lintSt.i <= Len(lintSt.runes)
          /\ LoopCond(lintSt) =>
               /\ \A k \in ScanReads(lintSt) : InRange(lintSt.runes, k)
               /\ SlicesInRange(lintSt))
  /\ [][ (lintPc = "loop" /\ lintPc' = "loop") =>
           /\ lintSt'.i = lintSt.i + 1
           /\ Len(lintSt'.runes) <= Len(lintSt.runes)
           /\ lintSt'.i <= Len(lintSt'.runes)
           /\ lintSt'.w # lintSt.w =>
                (lintSt.w < lintSt'.i /\ InRange(lintSt'.runes, lintSt.w)) ]_vars
  /\ <>(lintPc = "return")

\* C20 witness: the scan of a name that ends in a run of underscores is at the
\* end of the slice it has cut short.
C20_Witness ==
  /\ lintPc = "loop"
  /\ lintIn[Len(lintIn)] = "_"
  /\ Len(lintSt.runes) < Len(lintIn)
  /\ lintSt.i = Len(lintSt.runes)

=============================================================================
